---- MODULE Spec2Model ----
(***************************************************************************)
(* The FFI wrappers of wlcs-rs (src/src/ffi_wrappers.rs): Handles that     *)
(* embed a version-tagged operation table next to the user implementation  *)
(* object, container_of identity recovery, and the catch_unwind barrier    *)
(* every extern "C" trampoline wraps its body in.                          *)
(*                                                                         *)
(* One action per trampoline.  Every action records the call it served     *)
(* (call), the value handed back to the foreign caller (ret) and the       *)
(* ordered events of the call (trace): assertion, dispatch to a capability *)
(* method, panic, reclaim / drop / free of a Handle, diagnostic print.     *)
(* pheap, pissued and pfds are the heap, the host's pointers and the       *)
(* descriptor table as they were when the call was made.                   *)
(***************************************************************************)
EXTENDS Integers, Sequences, FiniteSets, TLC

VARIABLES heap, fdTable, sigpipe, proc, issued, call, ret, trace,
          pheap, pissued, pfds

vars == <<heap, fdTable, sigpipe, proc, issued, call, ret, trace,
          pheap, pissued, pfds>>

-----------------------------------------------------------------------------
(* Bounds of the model *)

\* number of heap slots a Handle can be boxed into
MaxAddr == 3
\* implementation values the user factories can produce: 1..MaxVal
MaxVal == 2
\* coordinates and button codes passed by the host: 0..MaxArg
MaxArg == 1
\* file descriptors the implementation can open: 0..MaxFd-1
MaxFd == 2
\* offset of the header field inside a Handle, in address units (the
\* layout of the three Handle structs is the compiler's choice)
MaxOff == 1

-----------------------------------------------------------------------------
(* Program constants *)

\* wlcs_display_server(): version: 3
ServerVersion == 3
\* wlcs_pointer(): version: 1
PointerVersion == 1
\* wlcs_touch(): version: 1
TouchVersion == 1
\* create_client_socket_ffi, Err arm
ClientSocketErr == -1

NULL == 0

Vals == 1..MaxVal
Args == 0..MaxArg
\* the (x, y) pairs the host passes: x and y differ whenever MaxArg is odd
\* the button codes the host passes
Buttons == {<<b, -1>> : b \in Args}
Points == {<<x, MaxArg - x>> : x \in Args}
Fds == 0..(MaxFd - 1)

\* Size of a Handle in address units: large enough for every header offset.
HandleSize == MaxOff + 1
\* Base addresses Box::new can return.
Addrs == {i * HandleSize : i \in 1..MaxAddr}

-----------------------------------------------------------------------------
(* Handles *)

\* the operation slots of the three tables
ServerSlots == {"start", "stop", "create_client_socket", "position_window_absolute",
                "create_pointer", "create_touch", "get_descriptor", "start_on_this_thread"}
PointerSlots == {"move_absolute", "move_relative", "button_up", "button_down", "destroy"}
TouchSlots == {"touch_down", "touch_move", "touch_up", "destroy"}

NoHandle == [kind |-> "none", version |-> 0, slots |-> {}, val |-> 0, st |-> "none"]

\* Mutant of DisplayServerHandle: the table is built with the tag of the
\* pointer table and without its last slot.
DisplayServerHandleOldTable(v) ==
    [kind |-> "server", version |-> 1, slots |-> ServerSlots \ {"start_on_this_thread"},
     val |-> v, st |-> "new"]

\* DisplayServerHandle { wlcs_display_server: wlcs_display_server::<W>(), wlcs }
DisplayServerHandle(v) ==
    [kind |-> "server", version |-> ServerVersion, slots |-> ServerSlots,
     val |-> v, st |-> "new"]

\* Mutant of PointerHandle: the Handle is built around another object than
\* the one the factory produced.
PointerHandleOtherObject(v) ==
    [kind |-> "pointer", version |-> 1, slots |-> PointerSlots, val |-> 1, st |-> "new"]

\* PointerHandle { wlcs_pointer: wlcs_pointer::<W>(), p }
PointerHandle(v) ==
    [kind |-> "pointer", version |-> PointerVersion, slots |-> PointerSlots,
     val |-> v, st |-> "new"]

\* TouchHandle { wlcs_touch: wlcs_touch::<W>(), t }
TouchHandle(v) ==
    [kind |-> "touch", version |-> TouchVersion, slots |-> TouchSlots,
     val |-> v, st |-> "new"]

\* std::ptr::addr_of_mut!((*handle).header): the address handed to the host
AddrOfHeader(a) == a + MaxOff

\* Mutant of ContainerOf: the header's address is taken for the Handle's.
ContainerOfNoOffset(ptr) == ptr

\* container_of!(ptr, Handle, header): the enclosing Handle of a header
ContainerOf(ptr) == ptr - MaxOff

\* reading the Handle at a recovered address
Deref(h, a) == IF a \in DOMAIN h THEN h[a] ELSE NoHandle

\* writing the implementation object's state through the recovered reference
StoreSt(h, a, s) == IF a \in DOMAIN h THEN [h EXCEPT ![a].st = s] ELSE h

\* Mutant of Free: the Box is forgotten instead of dropped.
FreeLeaks(h, a) == h

\* deallocation of the Box at a
Free(h, a) == IF a \in DOMAIN h THEN [h EXCEPT ![a] = NoHandle] ELSE h

FreeAddrs == {a \in Addrs : heap[a] = NoHandle}

\* The implementation object's own state after method m completes: the
\* instance object remembers whether it was last started or stopped; the
\* other capability methods leave what the model observes unchanged.
Method(s, m) ==
    CASE m = "start" -> "started"
      [] m = "stop" -> "stopped"
      [] OTHER -> s

-----------------------------------------------------------------------------
(* Events of one call *)

\* One event: what happened (ev), at which Handle address (at), on which
\* implementation value (val), which method or trampoline (m), its arguments.
Ev(e, a, v, m, x, y) == [ev |-> e, at |-> a, val |-> v, m |-> m, x |-> x, y |-> y]

\* assert_eq!(handle.header.version, expected): x is the expected constant
EvAssert(a, expected, ok) ==
    Ev(IF ok THEN "assert_ok" ELSE "assert_fail", a, 0, "", expected, -1)
\* a call of a capability method of the implementation object stored at a
EvDispatch(a, v, m, x, y) == Ev("dispatch", a, v, m, x, y)
\* a panic raised by user code (or by unwrap) and unwinding out of the closure
EvPanic(m) == Ev("panic", NULL, 0, m, -1, -1)
\* println!("panic in <name> on ptr: ...")
EvPrint(name) == Ev("print", NULL, 0, name, -1, -1)
\* Box::from_raw(container_of!(..)): ownership of the Handle is taken back
EvReclaim(a) == Ev("reclaim", a, 0, "", -1, -1)
\* the implementation object of the Handle at a is dropped, in state st
EvDrop(a, v, st) == Ev("drop", a, v, st, -1, -1)
\* what a factory method handed back: Some(object v) / None / a descriptor v
EvYield(what, v) == Ev(what, NULL, v, "", -1, -1)
\* the Handle's storage is deallocated
EvFree(a) == Ev("free", a, 0, "", -1, -1)
\* Box::into_raw(Box::new(Handle {..}))
EvAlloc(a, v) == Ev("alloc", a, v, "", -1, -1)
\* sigaction(SIGPIPE, SIG_IGN)
EvSigaction(ok) == Ev(IF ok THEN "sigaction_ok" ELSE "sigaction_fail", NULL, 0, "", -1, -1)

-----------------------------------------------------------------------------
(* The result of running a trampoline's closure: the memory it leaves, whether
   it unwound, the value it evaluated to and the events in order. *)

Res(h, f, s, p, v, e) == [heap |-> h, fds |-> f, sig |-> s, panic |-> p, val |-> v, ev |-> e]

\* Mutant of CatchUnwind: the body is not wrapped, a panic leaves the function.
CatchUnwindMissing(r) == IF r.panic THEN "Unwind" ELSE "Ok"

\* std::panic::catch_unwind(|| body): Err when the closure unwound, else Ok.
\* "Unwind" (the panic leaves the extern "C" function) is what an unwrapped
\* body would give.
CatchUnwind(r) == IF r.panic THEN "Err" ELSE "Ok"

\* The match / if-let around catch_unwind, common to every trampoline:
\* Ok(v) => v, Err(err) => { println!("panic in <msg> ..."); sentinel }.
\* name is the trampoline, msg the name its println! prints.
Trampoline(name, msg, ptr, x, y, rk, errv, r) ==
    LET c == CatchUnwind(r)
    IN /\ heap' = r.heap
       /\ fdTable' = r.fds
       /\ sigpipe' = r.sig
       /\ proc' = IF c = "Unwind" THEN "aborted" ELSE proc
       /\ call' = [op |-> name, ptr |-> ptr, x |-> x, y |-> y]
       /\ ret' = CASE c = "Ok" -> [kind |-> rk, v |-> r.val]
                  [] c = "Err" -> [kind |-> rk, v |-> errv]
                  [] OTHER -> [kind |-> "none", v |-> 0]
       /\ trace' = IF c = "Err" THEN Append(r.ev, EvPrint(msg)) ELSE r.ev
       /\ pheap' = heap
       /\ pissued' = issued
       /\ pfds' = fdTable

-----------------------------------------------------------------------------
(* What the host holds: the header pointers creation calls returned and that
   it has not yet passed to the matching destroy.  The host passes only these
   (the protocol's precondition); val is the implementation value the Handle
   was constructed around and at the address its Box was allocated at. *)

Held(k) == {i.ptr : i \in {j \in issued : j.kind = k}}

Issue(p, k, v, a) ==
    IF p = NULL THEN issued
    ELSE issued \cup {[ptr |-> p, kind |-> k, val |-> v, at |-> a]}

Retire(p) == {i \in issued : i.ptr # p}

-----------------------------------------------------------------------------
(* File descriptors *)

\* Wlcs::create_client_socket(&self) -> OwnedFd: the implementation opens f
OpenOwnedFd(tbl, f) == [tbl EXCEPT ![f] = "owned"]

\* Mutant of IntoRawFd: as_raw_fd, and the OwnedFd is dropped at the end of
\* the arm, which closes the descriptor.
AsRawFdThenDrop(tbl, f) == [tbl EXCEPT ![f] = "closed"]

\* OwnedFd::into_raw_fd: ownership is given up, the descriptor stays open
IntoRawFd(tbl, f) == [tbl EXCEPT ![f] = "host"]

ClosedFds == {f \in Fds : fdTable[f] = "closed"}

\* the descriptor the operating system hands out: the lowest closed one
LowestClosedFd == CHOOSE f \in ClosedFds : \A g \in ClosedFds : f <= g

-----------------------------------------------------------------------------
(* Closures of the instance-table trampolines *)

\* Mutant of ServerCall: the adapter keeps its own record of the instance's
\* state and does not pass on a start to a started instance or a stop to a
\* stopped one.
ServerCallGuardsState(ptr, m, x, y, fault, partial) ==
    LET a == ContainerOf(ptr)
        h == Deref(heap, a)
    IN IF h.st = Method(h.st, m) /\ m \in {"start", "stop"}
       THEN Res(heap, fdTable, sigpipe, FALSE, 0, <<EvAssert(a, ServerVersion, TRUE)>>)
       ELSE Res(IF fault /\ ~partial THEN heap ELSE StoreSt(heap, a, Method(h.st, m)),
                fdTable, sigpipe, fault, 0,
                <<EvAssert(a, ServerVersion, TRUE), EvDispatch(a, h.val, m, x, y)>>
                    \o (IF fault THEN <<EvPanic(m)>> ELSE <<>>))

\* Mutant of ServerCall: a method that faulted is called a second time.
ServerCallRetries(ptr, m, x, y, fault, partial) ==
    LET a == ContainerOf(ptr)
        h == Deref(heap, a)
    IN IF h.version # ServerVersion
       THEN Res(heap, fdTable, sigpipe, TRUE, 0, <<EvAssert(a, ServerVersion, FALSE)>>)
       ELSE Res(StoreSt(heap, a, Method(h.st, m)), fdTable, sigpipe, FALSE, 0,
                <<EvAssert(a, ServerVersion, TRUE), EvDispatch(a, h.val, m, x, y)>>
                    \o (IF fault THEN <<EvPanic(m), EvDispatch(a, h.val, m, x, y)>> ELSE <<>>))

\* let server = get_display_server_handle_mut(ptr);
\* assert_eq!(server.wlcs_display_server.version, 3); server.wlcs.<m>(..)
ServerCall(ptr, m, x, y, fault, partial) ==
    LET a == ContainerOf(ptr)
        h == Deref(heap, a)
    IN IF h.version # ServerVersion
       THEN Res(heap, fdTable, sigpipe, TRUE, 0, <<EvAssert(a, ServerVersion, FALSE)>>)
       ELSE Res(IF fault /\ ~partial THEN heap ELSE StoreSt(heap, a, Method(h.st, m)),
                fdTable, sigpipe, fault, 0,
                <<EvAssert(a, ServerVersion, TRUE), EvDispatch(a, h.val, m, x, y)>>
                    \o (IF fault THEN <<EvPanic(m)>> ELSE <<>>))

\* Mutant of CreateServerBody: the factory runs first, the signal disposition
\* is set after it.
CreateServerBodyFactoryFirst(sigok, fault, v, a) ==
    IF fault
    THEN Res(heap, fdTable, sigpipe, TRUE, NULL,
             <<EvDispatch(NULL, 0, "new", -1, -1), EvPanic("new")>>)
    ELSE IF ~sigok
    THEN Res(heap, fdTable, sigpipe, TRUE, NULL,
             <<EvDispatch(NULL, v, "new", -1, -1), EvSigaction(FALSE), EvPanic("unwrap")>>)
    ELSE Res([heap EXCEPT ![a] = DisplayServerHandle(v)], fdTable, TRUE, FALSE,
             AddrOfHeader(a),
             <<EvDispatch(NULL, v, "new", -1, -1), EvSigaction(TRUE), EvAlloc(a, v)>>)

\* closure of create_server_ffi: sigaction(..).unwrap(); W::new(); Box::new;
\* Box::into_raw; addr_of_mut!
CreateServerBody(sigok, fault, v, a) ==
    IF ~sigok
    THEN Res(heap, fdTable, sigpipe, TRUE, NULL,
             <<EvSigaction(FALSE), EvPanic("unwrap")>>)
    ELSE IF fault
    THEN Res(heap, fdTable, TRUE, TRUE, NULL,
             <<EvSigaction(TRUE), EvDispatch(NULL, 0, "new", -1, -1), EvPanic("new")>>)
    ELSE Res([heap EXCEPT ![a] = DisplayServerHandle(v)], fdTable, TRUE, FALSE,
             AddrOfHeader(a),
             <<EvSigaction(TRUE), EvDispatch(NULL, v, "new", -1, -1), EvAlloc(a, v)>>)

\* Mutant of DestroyServerBody: the instance takes its pointer and touch
\* Handles down with it.
DestroyServerBodyFreesCapabilities(ptr) ==
    LET a == ContainerOf(ptr)
        h == Deref(heap, a)
        ok == h.version = ServerVersion
    IN Res([b \in Addrs |-> IF b = a \/ heap[b].kind \in {"pointer", "touch"}
                            THEN NoHandle ELSE heap[b]],
           fdTable, sigpipe, ~ok, 0,
           <<EvReclaim(a), EvAssert(a, ServerVersion, ok), EvDrop(a, h.val, h.st), EvFree(a)>>)

\* Mutant of DestroyServerBody: a started instance is stopped before it is
\* dropped.
DestroyServerBodyStops(ptr) ==
    LET a == ContainerOf(ptr)
        h == Deref(heap, a)
        ok == h.version = ServerVersion
    IN Res(Free(heap, a), fdTable, sigpipe, ~ok, 0,
           <<EvReclaim(a), EvAssert(a, ServerVersion, ok)>>
               \o (IF h.st = "started" THEN <<EvDispatch(a, h.val, "stop", -1, -1)>> ELSE <<>>)
               \o <<EvDrop(a, h.val, Method(h.st, "stop")), EvFree(a)>>)

\* closure of destroy_server_ffi: Box::from_raw first, then the assertion;
\* the Box is dropped when the closure ends or unwinds
DestroyServerBody(ptr) ==
    LET a == ContainerOf(ptr)
        h == Deref(heap, a)
        ok == h.version = ServerVersion
    IN Res(Free(heap, a), fdTable, sigpipe, ~ok, 0,
           <<EvReclaim(a), EvAssert(a, ServerVersion, ok), EvDrop(a, h.val, h.st), EvFree(a)>>)

\* closure and Ok arm of create_client_socket_ffi
CreateClientSocketBody(ptr, fault) ==
    LET a == ContainerOf(ptr)
        h == Deref(heap, a)
        f == LowestClosedFd
    IN IF h.version # ServerVersion
       THEN Res(heap, fdTable, sigpipe, TRUE, 0, <<EvAssert(a, ServerVersion, FALSE)>>)
       ELSE IF fault
       THEN Res(heap, fdTable, sigpipe, TRUE, 0,
                <<EvAssert(a, ServerVersion, TRUE), EvDispatch(a, h.val, "create_client_socket", -1, -1),
                  EvPanic("create_client_socket")>>)
       ELSE Res(heap, IntoRawFd(OpenOwnedFd(fdTable, f), f), sigpipe, FALSE, f,
                <<EvAssert(a, ServerVersion, TRUE), EvDispatch(a, h.val, "create_client_socket", -1, -1),
                  EvYield("yield_fd", f)>>)

\* Mutant of CreateCapabilityBody: the Box is allocated and leaked before the
\* factory is called, so a factory that faults or yields none leaves it behind.
CreateCapabilityBodyBoxesFirst(ptr, m, fault, some, v, a2) ==
    LET a == ContainerOf(ptr)
        h == Deref(heap, a)
        new == IF m = "create_pointer" THEN PointerHandle(v) ELSE TouchHandle(v)
        b == IF a2 \in Addrs \/ FreeAddrs = {} THEN a2 ELSE CHOOSE c \in FreeAddrs : TRUE
        boxed == IF b \in Addrs THEN [heap EXCEPT ![b] = new] ELSE heap
    IN IF fault
       THEN Res(boxed, fdTable, sigpipe, TRUE, NULL,
                <<EvAssert(a, ServerVersion, TRUE), EvAlloc(b, v), EvDispatch(a, h.val, m, -1, -1),
                  EvPanic(m)>>)
       ELSE IF ~some
       THEN Res(boxed, fdTable, sigpipe, FALSE, NULL,
                <<EvAssert(a, ServerVersion, TRUE), EvAlloc(b, v), EvDispatch(a, h.val, m, -1, -1),
                  EvYield("yield_none", 0)>>)
       ELSE Res(boxed, fdTable, sigpipe, FALSE, AddrOfHeader(b),
                <<EvAssert(a, ServerVersion, TRUE), EvAlloc(b, v), EvDispatch(a, h.val, m, -1, -1),
                  EvYield("yield_some", v)>>)

\* closure of create_pointer_ffi / create_touch_ffi: m is the factory method,
\* some whether it yields Some(object), v the object, a2 the new Box
CreateCapabilityBody(ptr, m, fault, some, v, a2) ==
    LET a == ContainerOf(ptr)
        h == Deref(heap, a)
        new == IF m = "create_pointer" THEN PointerHandle(v) ELSE TouchHandle(v)
    IN IF h.version # ServerVersion
       THEN Res(heap, fdTable, sigpipe, TRUE, NULL, <<EvAssert(a, ServerVersion, FALSE)>>)
       ELSE IF fault
       THEN Res(heap, fdTable, sigpipe, TRUE, NULL,
                <<EvAssert(a, ServerVersion, TRUE), EvDispatch(a, h.val, m, -1, -1), EvPanic(m)>>)
       ELSE IF ~some
       THEN Res(heap, fdTable, sigpipe, FALSE, NULL,
                <<EvAssert(a, ServerVersion, TRUE), EvDispatch(a, h.val, m, -1, -1), EvYield("yield_none", 0)>>)
       ELSE Res([heap EXCEPT ![a2] = new], fdTable, sigpipe, FALSE, AddrOfHeader(a2),
                <<EvAssert(a, ServerVersion, TRUE), EvDispatch(a, h.val, m, -1, -1), EvYield("yield_some", v),
                  EvAlloc(a2, v)>>)

\* the descriptor the implementation object lends out
DescriptorPtr(v) == (MaxAddr + 1) * HandleSize + v

\* Mutant of GetDescriptorBody: the Handle is borrowed mutably and the read
\* stops the instance.
GetDescriptorBodyStops(ptr, fault) ==
    LET a == ContainerOf(ptr)
        h == Deref(heap, a)
    IN Res(StoreSt(heap, a, "stopped"), fdTable, sigpipe, fault, DescriptorPtr(h.val),
           <<EvDispatch(a, h.val, "get_descriptor", -1, -1)>>
               \o (IF fault THEN <<EvPanic("get_descriptor")>> ELSE <<>>))

\* closure of get_descriptor_ffi: get_display_server_handle_ref(ptr), no
\* assertion, server.wlcs.get_descriptor()
GetDescriptorBody(ptr, fault) ==
    LET a == ContainerOf(ptr)
        h == Deref(heap, a)
    IN Res(heap, fdTable, sigpipe, fault, DescriptorPtr(h.val),
           <<EvDispatch(a, h.val, "get_descriptor", -1, -1)>>
               \o (IF fault THEN <<EvPanic("get_descriptor")>> ELSE <<>>))

-----------------------------------------------------------------------------
(* Closures of the pointer-table and touch-table trampolines *)

\* Mutant of InputCall: the Handle is taken back with Box::from_raw instead
\* of borrowed, so it is dropped when the closure ends.
InputCallReclaims(ptr, m, x, y, fault) ==
    LET a == ContainerOf(ptr)
        h == Deref(heap, a)
    IN Res(Free(heap, a), fdTable, sigpipe, fault, 0,
           <<EvDispatch(a, h.val, m, x, y)>> \o (IF fault THEN <<EvPanic(m)>> ELSE <<>>))

\* let pointer = get_pointer_handle(ptr); pointer.p.<m>(x, y)
\* let touch = get_touch_handle(ptr); touch.t.<m>(x, y)
InputCall(ptr, m, x, y, fault) ==
    LET a == ContainerOf(ptr)
        h == Deref(heap, a)
    IN Res(StoreSt(heap, a, Method(h.st, m)),
           fdTable, sigpipe, fault, 0,
           <<EvDispatch(a, h.val, m, x, y)>> \o (IF fault THEN <<EvPanic(m)>> ELSE <<>>))

\* Mutant of InputDestroyBody: every Handle of the kind is released.
InputDestroyBodyFreesKind(ptr, fault) ==
    LET a == ContainerOf(ptr)
        h == Deref(heap, a)
    IN Res([b \in Addrs |-> IF heap[b].kind = h.kind THEN NoHandle ELSE heap[b]],
           fdTable, sigpipe, fault, 0,
           <<EvReclaim(a), EvDispatch(a, h.val, "destroy", -1, -1)>>
               \o (IF fault THEN <<EvPanic("destroy")>> ELSE <<>>)
               \o <<EvDrop(a, h.val, h.st), EvFree(a)>>)

\* Mutant of InputDestroyBody: the Box is dropped before the hook is called.
InputDestroyBodyDropsFirst(ptr, fault) ==
    LET a == ContainerOf(ptr)
        h == Deref(heap, a)
    IN Res(Free(heap, a), fdTable, sigpipe, fault, 0,
           <<EvReclaim(a), EvDrop(a, h.val, h.st), EvFree(a),
             EvDispatch(a, h.val, "destroy", -1, -1)>>
               \o (IF fault THEN <<EvPanic("destroy")>> ELSE <<>>))

\* Mutant of InputDestroyBody: a hook that faulted leaves the Box forgotten.
InputDestroyBodyForgetsOnFault(ptr, fault) ==
    LET a == ContainerOf(ptr)
        h == Deref(heap, a)
    IN IF fault
       THEN Res(heap, fdTable, sigpipe, fault, 0,
                <<EvReclaim(a), EvDispatch(a, h.val, "destroy", -1, -1), EvPanic("destroy")>>)
       ELSE Res(Free(heap, a), fdTable, sigpipe, fault, 0,
                <<EvReclaim(a), EvDispatch(a, h.val, "destroy", -1, -1),
                  EvDrop(a, h.val, h.st), EvFree(a)>>)

\* closure of pointer_destroy_ffi / touch_destroy_ffi: Box::from_raw, the
\* destroy hook, then the Box is dropped when the closure ends or unwinds
InputDestroyBody(ptr, fault) ==
    LET a == ContainerOf(ptr)
        h == Deref(heap, a)
    IN Res(Free(heap, a), fdTable, sigpipe, fault, 0,
           <<EvReclaim(a), EvDispatch(a, h.val, "destroy", -1, -1)>>
               \o (IF fault THEN <<EvPanic("destroy")>> ELSE <<>>)
               \o <<EvDrop(a, h.val, h.st), EvFree(a)>>)

-----------------------------------------------------------------------------
(* Initial state: the library is loaded, nothing has been created. *)

Init ==
    /\ heap = [a \in Addrs |-> NoHandle]
    /\ fdTable = [f \in Fds |-> "closed"]
    /\ sigpipe = FALSE
    /\ proc = "running"
    /\ issued = {}
    /\ call = [op |-> "none", ptr |-> NULL, x |-> -1, y |-> -1]
    /\ ret = [kind |-> "none", v |-> 0]
    /\ trace = <<>>
    /\ pheap = heap
    /\ pissued = {}
    /\ pfds = fdTable

-----------------------------------------------------------------------------
(* Factory table: wlcs_server() *)

\* W::new() takes no argument: every instance object starts as the same value
NewW == MaxVal

CreateServer(sigok, fault, v, a) ==
    /\ Trampoline("create_server_ffi", "create_server_ffi", NULL, -1, -1, "ptr", NULL,
                  CreateServerBody(sigok, fault, v, a))
    /\ issued' = Issue(ret'.v, "server", v, a)

create_server_ffi ==
    /\ proc = "running"
    /\ \E sigok \in BOOLEAN, fault \in BOOLEAN :
          IF sigok /\ ~fault
          THEN \E v \in {NewW}, a \in FreeAddrs : CreateServer(sigok, fault, v, a)
          ELSE CreateServer(sigok, fault, 0, NULL)

destroy_server_ffi ==
    /\ proc = "running"
    /\ \E p \in Held("server") :
          /\ Trampoline("destroy_server_ffi", "destroy_server_ffi", p, -1, -1, "void", 0,
                        DestroyServerBody(p))
          /\ issued' = Retire(p)

-----------------------------------------------------------------------------
(* Instance table: wlcs_display_server() *)

start_server_ffi ==
    /\ proc = "running"
    /\ \E p \in Held("server"), fault \in BOOLEAN, partial \in BOOLEAN :
          /\ Trampoline("start_server_ffi", "start_server_ffi", p, -1, -1, "void", 0,
                        ServerCall(p, "start", -1, -1, fault, partial))
          /\ UNCHANGED issued

stop_server_ffi ==
    /\ proc = "running"
    /\ \E p \in Held("server"), fault \in BOOLEAN, partial \in BOOLEAN :
          /\ Trampoline("stop_server_ffi", "stop_server_ffi", p, -1, -1, "void", 0,
                        ServerCall(p, "stop", -1, -1, fault, partial))
          /\ UNCHANGED issued

create_client_socket_ffi ==
    /\ proc = "running"
    /\ \E p \in Held("server"), fault \in BOOLEAN :
          /\ fault \/ ClosedFds # {}
          /\ Trampoline("create_client_socket_ffi",
                        "wlcs_display_server::create_client_socket_ffi",
                        p, -1, -1, "int", ClientSocketErr, CreateClientSocketBody(p, fault))
          /\ UNCHANGED issued

position_window_absolute_ffi ==
    /\ proc = "running"
    /\ \E p \in Held("server"), xy \in Points, fault \in BOOLEAN :
          /\ Trampoline("position_window_absolute_ffi",
                        "wlcs_display_server::position_window_absolute_ffi",
                        p, xy[1], xy[2], "void", 0,
                        ServerCall(p, "position_window_absolute", xy[1], xy[2], fault, FALSE))
          /\ UNCHANGED issued

CreateCapability(name, msg, m, k, p, fault, some, v, a2) ==
    /\ Trampoline(name, msg, p, -1, -1, "ptr", NULL,
                  CreateCapabilityBody(p, m, fault, some, v, a2))
    /\ issued' = Issue(ret'.v, k, v, a2)

create_pointer_ffi ==
    /\ proc = "running"
    /\ \E p \in Held("server"), fault \in BOOLEAN, some \in BOOLEAN :
          IF ~fault /\ some
          THEN \E v \in Vals, a2 \in FreeAddrs :
                  CreateCapability("create_pointer_ffi",
                                   "wlcs_display_server::create_pointer_ffi",
                                   "create_pointer", "pointer", p, fault, some, v, a2)
          ELSE /\ fault => ~some
               /\ CreateCapability("create_pointer_ffi",
                                   "wlcs_display_server::create_pointer_ffi",
                                   "create_pointer", "pointer", p, fault, some, 0, NULL)

create_touch_ffi ==
    /\ proc = "running"
    /\ \E p \in Held("server"), fault \in BOOLEAN, some \in BOOLEAN :
          IF ~fault /\ some
          THEN \E v \in Vals, a2 \in FreeAddrs :
                  CreateCapability("create_touch_ffi",
                                   "wlcs_display_server::create_touch_ffi",
                                   "create_touch", "touch", p, fault, some, v, a2)
          ELSE /\ fault => ~some
               /\ CreateCapability("create_touch_ffi",
                                   "wlcs_display_server::create_touch_ffi",
                                   "create_touch", "touch", p, fault, some, 0, NULL)

get_descriptor_ffi ==
    /\ proc = "running"
    /\ \E p \in Held("server"), fault \in BOOLEAN :
          /\ Trampoline("get_descriptor_ffi", "wlcs_display_server::get_descriptor_ffi",
                        p, -1, -1, "ptr", NULL, GetDescriptorBody(p, fault))
          /\ UNCHANGED issued

start_on_this_thread_ffi ==
    /\ proc = "running"
    /\ \E p \in Held("server"), fault \in BOOLEAN :
          /\ Trampoline("start_on_this_thread_ffi", "start_on_this_thread_ffi",
                        p, -1, -1, "void", 0,
                        ServerCall(p, "start_on_this_thread", -1, -1, fault, FALSE))
          /\ UNCHANGED issued

-----------------------------------------------------------------------------
(* Pointer table: wlcs_pointer() *)

InputOp(name, msg, k, m, xys) ==
    /\ proc = "running"
    /\ \E p \in Held(k), xy \in xys, fault \in BOOLEAN :
          /\ Trampoline(name, msg, p, xy[1], xy[2], "void", 0,
                        InputCall(p, m, xy[1], xy[2], fault))
          /\ UNCHANGED issued

InputDestroy(name, msg, k) ==
    /\ proc = "running"
    /\ \E p \in Held(k), fault \in BOOLEAN :
          /\ Trampoline(name, msg, p, -1, -1, "void", 0, InputDestroyBody(p, fault))
          /\ issued' = Retire(p)

pointer_move_absolute_ffi ==
    InputOp("pointer_move_absolute_ffi", "pointer_move_absolute_ffi", "pointer",
            "move_absolute", Points)

pointer_move_relative_ffi ==
    InputOp("pointer_move_relative_ffi", "pointer_move_relative_ffi", "pointer",
            "move_relative", Points)

pointer_button_up_ffi ==
    InputOp("pointer_button_up_ffi", "pointer_button_up_ffi", "pointer",
            "button_up", Buttons)

pointer_button_down_ffi ==
    InputOp("pointer_button_down_ffi", "pointer_button_down_ffi", "pointer",
            "button_down", Buttons)

pointer_destroy_ffi ==
    InputDestroy("pointer_destroy_ffi", "pointer_destroy_ffi", "pointer")

-----------------------------------------------------------------------------
(* Touch table: wlcs_touch() *)

touch_down_ffi ==
    InputOp("touch_down_ffi", "touch_down_ffi", "touch", "touch_down", Points)

\* the println! of touch_move_ffi names touch_down_ffi
touch_move_ffi ==
    InputOp("touch_move_ffi", "touch_down_ffi", "touch", "touch_move", Points)

touch_up_ffi ==
    InputOp("touch_up_ffi", "touch_up_ffi", "touch", "touch_up", {<<-1, -1>>})

touch_destroy_ffi ==
    InputDestroy("touch_destroy_ffi", "touch_destroy_ffi", "touch")

-----------------------------------------------------------------------------

Next ==
    \/ create_server_ffi
    \/ destroy_server_ffi
    \/ start_server_ffi
    \/ stop_server_ffi
    \/ create_client_socket_ffi
    \/ position_window_absolute_ffi
    \/ create_pointer_ffi
    \/ create_touch_ffi
    \/ get_descriptor_ffi
    \/ start_on_this_thread_ffi
    \/ pointer_move_absolute_ffi
    \/ pointer_move_relative_ffi
    \/ pointer_button_up_ffi
    \/ pointer_button_down_ffi
    \/ pointer_destroy_ffi
    \/ touch_down_ffi
    \/ touch_move_ffi
    \/ touch_up_ffi
    \/ touch_destroy_ffi

Spec == Init /\ [][Next]_vars

-----------------------------------------------------------------------------
(* The header is memory the host can write: it holds a *mut pointer to it.
   HostWriteVersion overwrites the version tag of one header with the tag of
   another table shape (or puts the right one back); at most one header is
   mismatched at a time. *)

Mismatched(h) ==
    h # NoHandle /\ h.version # (IF h.kind = "server" THEN ServerVersion
                                 ELSE IF h.kind = "pointer" THEN PointerVersion
                                 ELSE TouchVersion)

HostWriteVersion ==
    /\ proc = "running"
    /\ \E i \in issued, v \in {ServerVersion, PointerVersion, TouchVersion} :
          /\ heap[i.at].version # v
          /\ \A j \in issued \ {i} : ~Mismatched(heap[j.at])
          /\ heap' = [heap EXCEPT ![i.at].version = v]
          /\ call' = [op |-> "host_write", ptr |-> i.ptr, x |-> v, y |-> -1]
          /\ ret' = [kind |-> "none", v |-> 0]
          /\ trace' = <<>>
          /\ pheap' = heap
          /\ pissued' = issued
          /\ pfds' = fdTable
          /\ UNCHANGED <<fdTable, sigpipe, proc, issued>>

NextHost == Next \/ HostWriteVersion

SpecHost == Init /\ [][NextHost]_vars

-----------------------------------------------------------------------------
(* Vocabulary of the properties: what the last call did. *)

CreateOps == {"create_server_ffi", "create_pointer_ffi", "create_touch_ffi"}
DestroyOps == {"destroy_server_ffi", "pointer_destroy_ffi", "touch_destroy_ffi"}
NullOps == CreateOps \cup {"get_descriptor_ffi"}

\* positions of the events named e in a call's trace t / in the last call
EventsOf(t, e) == {n \in 1..Len(t) : t[n].ev = e}
Events(e) == EventsOf(trace, e)
Has(e) == Events(e) # {}

\* the last call ran user code (a capability method or the factory W::new)
\* and that code raised a fault
UserFault == \E n \in Events("panic") : trace[n].m # "unwrap"

\* the last call was a non-destroy trampoline whose implementation faulted
FaultContained == UserFault /\ call.op \notin DestroyOps

\* every Handle the host holds is allocated, of its kind, around its object
IssuedLive ==
    \A i \in issued : /\ heap[i.at].kind = i.kind
                      /\ heap[i.at].val = i.val
                      /\ i.ptr = i.at + MaxOff

\* the last call, if made on a header pointer, called a capability method of
\* the object of exactly the Handle that pointer was returned for, and of no
\* other (destroy-instance calls no capability method: it drops that object)
DispatchesToOwn ==
    call.ptr # NULL =>
        \E i \in pissued :
            LET e == IF call.op = "destroy_server_ffi" THEN "drop" ELSE "dispatch"
            IN /\ i.ptr = call.ptr
               /\ Events(e) # {}
               /\ \A n \in Events(e) : trace[n].at = i.at /\ trace[n].val = i.val
               /\ \A n \in Events("dispatch") : trace[n].at = i.at

\* the last call left every Handle allocated, with its header and object
KeptHandles ==
    /\ pissued \subseteq issued
    /\ \A a \in Addrs :
          pheap[a] # NoHandle =>
              /\ heap[a].kind = pheap[a].kind
              /\ heap[a].val = pheap[a].val
              /\ heap[a].version = pheap[a].version

-----------------------------------------------------------------------------
(* C1: a fault raised by the user capability method a trampoline invokes never
   reaches the foreign caller: the process keeps running and the call returns
   the sentinel of its signature: null for create-instance, create-pointer,
   create-touch and get-descriptor, -1 for open-client-channel, a plain
   return for the void operations. *)
C1_FaultReturnsSentinel ==
    UserFault =>
        /\ proc = "running"
        /\ ret = CASE call.op \in NullOps -> [kind |-> "ptr", v |-> 0]
                   [] call.op = "create_client_socket_ffi" -> [kind |-> "int", v |-> -1]
                   [] OTHER -> [kind |-> "void", v |-> 0]

\* open-client-channel faulted in the implementation and returned -1
C1_Witness ==
    /\ UserFault
    /\ call.op = "create_client_socket_ffi"
    /\ ret.v = -1
    /\ proc = "running"

(* C2: a fault contained in a non-destroy trampoline ends the life of no
   Handle: the faulting call keeps every Handle, in the state it leaves every
   Handle the host holds is live, and the next call, on that Handle or on any
   other, is dispatched to that Handle's own object and returns to the host. *)
C2_Step ==
    /\ FaultContained => KeptHandles /\ issued = pissued /\ IssuedLive
    /\ FaultContained => DispatchesToOwn' /\ proc' = "running"

C2_FaultKeepsHandles == [][C2_Step]_vars

\* move-absolute faulted, returned, and button-down can be called on the
\* same, still allocated pointer Handle
C2_Witness ==
    /\ call.op = "pointer_move_absolute_ffi"
    /\ UserFault
    /\ ret = [kind |-> "void", v |-> 0]
    /\ \E i \in issued : i.ptr = call.ptr /\ heap[i.at].kind = "pointer"
    /\ ENABLED pointer_button_down_ffi

(* C3: the allocated Handles are exactly the Handles a creation call returned
   and no destruction call has taken back; a successful creation allocates
   one Handle around the object, a destruction releases exactly the Handle of
   its pointer and drops its object, no other call allocates or releases. *)
C3_HandlesExactlyIssued ==
    /\ {a \in Addrs : heap[a] # NoHandle} = {i.at : i \in issued}
    /\ IssuedLive
    /\ \A i, j \in issued : (i.at = j.at \/ i.ptr = j.ptr) => i = j
    /\ CASE call.op \in CreateOps /\ ret.v # NULL ->
              \E i \in issued \ pissued :
                  /\ issued = pissued \cup {i}
                  /\ ret.v = i.ptr
                  /\ pheap[i.at] = NoHandle
                  /\ \A b \in Addrs \ {i.at} : heap[b] = pheap[b]
                  /\ Cardinality(Events("alloc")) = 1
                  /\ \A n \in Events("alloc") : trace[n].at = i.at /\ trace[n].val = i.val
                  /\ Events("free") = {} /\ Events("drop") = {}
         [] call.op \in DestroyOps ->
              \E i \in pissued :
                  /\ i.ptr = call.ptr
                  /\ issued = pissued \ {i}
                  /\ heap[i.at] = NoHandle
                  /\ \A b \in Addrs \ {i.at} : heap[b] = pheap[b]
                  /\ Cardinality(Events("free")) = 1
                  /\ Cardinality(Events("drop")) = 1
                  /\ \A n \in Events("free") : trace[n].at = i.at
                  /\ \A n \in Events("drop") : trace[n].at = i.at /\ trace[n].val = i.val
                  /\ Events("alloc") = {}
         [] OTHER ->
              /\ issued = pissued
              /\ \A a \in Addrs : (heap[a] = NoHandle) = (pheap[a] = NoHandle)
              /\ Events("alloc") = {} /\ Events("free") = {} /\ Events("drop") = {}

\* an instance that was started and then stopped has just been destroyed and
\* nothing is allocated
C3_Witness ==
    /\ call.op = "destroy_server_ffi"
    /\ \E n \in Events("drop") : trace[n].m = "stopped"
    /\ \A a \in Addrs : heap[a] = NoHandle
    /\ issued = {}

(* C4 as stated: create-pointer and create-touch return null exactly when the
   factory yields none. *)
C4_NullIffNone ==
    call.op \in {"create_pointer_ffi", "create_touch_ffi"} =>
        ((ret.v = NULL) <=> Has("yield_none"))

(* C4 as amended: on an instance Handle whose header is as the library wrote
   it, create-pointer and create-touch return null exactly when the factory
   yields none or raises a fault; otherwise they return the header pointer of
   a newly allocated Handle of that kind around the object the factory
   produced, and the pointer / touch calls on that pointer are dispatched to
   that object. *)
C4_NullIffNoneOrFault ==
    /\ call.op \in {"create_pointer_ffi", "create_touch_ffi"} =>
          /\ (ret.v = NULL) <=> (Has("yield_none") \/ UserFault)
          /\ ret.v # NULL =>
                \E i \in issued \ pissued, n \in Events("yield_some") :
                    /\ i.ptr = ret.v
                    /\ i.kind = (IF call.op = "create_pointer_ffi" THEN "pointer" ELSE "touch")
                    /\ pheap[i.at] = NoHandle
                    /\ heap[i.at].kind = i.kind
                    /\ heap[i.at].val = trace[n].val
                    /\ i.val = trace[n].val
    /\ (\E i \in pissued : i.ptr = call.ptr /\ i.kind \in {"pointer", "touch"}) =>
          DispatchesToOwn

\* a pointer call is being served on a Handle create-pointer returned, and it
\* reaches the object the factory produced
C4_Witness ==
    /\ call.op = "pointer_button_down_ffi"
    /\ \E i \in issued, n \in Events("dispatch") :
          i.ptr = call.ptr /\ i.kind = "pointer" /\ trace[n].val = i.val /\ i.val = MaxVal

(* C5 as stated: every trampoline that receives a header pointer asserts,
   before anything else (before it dispatches to the implementation object or
   takes the Handle back), that the header's version tag equals the constant
   of its table: 3 for the instance table, get-descriptor and
   destroy-instance included, 1 for the pointer and touch tables. *)
C5_AssertsVersionFirst ==
    (call.ptr # NULL /\ call.op # "host_write") =>
        /\ Len(trace) >= 1
        /\ trace[1].ev \in {"assert_ok", "assert_fail"}
        /\ trace[1].x = (IF \E i \in pissued : i.ptr = call.ptr /\ i.kind = "server"
                         THEN 3 ELSE 1)

(* C6 as stated: a version mismatch a trampoline detects is fatal on the
   current call path: the call returns no sentinel and no later call is
   served; only faults of user capability code are turned into the sentinel. *)
C6_MismatchIsFatal ==
    Has("assert_fail") => (proc = "aborted" /\ ret.kind = "none")

(* C7: two create-pointer (or create-touch) calls on one live instance give
   two distinct header pointers of two Handles; destroying one releases that
   Handle only, every other Handle keeps its header and object, and the calls
   on the other are dispatched to its own object. *)
C7_DestroyReleasesOnlyItsHandle ==
    /\ \A i, j \in issued : i # j => (i.ptr # j.ptr /\ i.at # j.at)
    /\ (call.op \in {"create_pointer_ffi", "create_touch_ffi"} /\ ret.v # NULL) =>
          /\ \A i \in pissued : i.ptr # ret.v
          /\ \A a \in Addrs : pheap[a] # NoHandle => heap[a] = pheap[a]
    /\ call.op \in {"pointer_destroy_ffi", "touch_destroy_ffi"} =>
          \E i \in pissued :
              /\ i.ptr = call.ptr
              /\ heap[i.at] = NoHandle
              /\ issued = pissued \ {i}
              /\ \A b \in Addrs \ {i.at} : heap[b] = pheap[b]
    /\ (\E i \in pissued : i.ptr = call.ptr /\ i.kind \in {"pointer", "touch"}) =>
          DispatchesToOwn

\* one of two pointer Handles created on a still live instance has just been
\* destroyed; the other is allocated and untouched
C7_Witness ==
    /\ call.op = "pointer_destroy_ffi"
    /\ \E i \in issued : i.kind = "pointer" /\ heap[i.at] = pheap[i.at]
                         /\ heap[i.at].kind = "pointer"
    /\ \E i \in issued : i.kind = "server"
    /\ \E j \in pissued \ issued : j.kind = "pointer"

(* C8: a pointer or touch Handle does not depend on the instance Handle:
   start, stop, start-on-this-thread and destroy-instance leave every
   capability Handle allocated and unchanged, a capability Handle leaves the
   host's set only through its own destroy call, its calls reach its own
   object whether or not an instance is live, and destroying a capability
   Handle leaves every instance Handle unchanged. *)
C8_CapabilityIndependentOfInstance ==
    /\ call.op \in {"start_server_ffi", "stop_server_ffi", "start_on_this_thread_ffi",
                    "destroy_server_ffi"} =>
          \A a \in Addrs : pheap[a].kind \in {"pointer", "touch"} => heap[a] = pheap[a]
    /\ \A i \in pissued \ issued :
          i.kind \in {"pointer", "touch"} =>
              (call.op \in {"pointer_destroy_ffi", "touch_destroy_ffi"} /\ call.ptr = i.ptr)
    /\ \A i \in issued : i.kind \in {"pointer", "touch"} => heap[i.at].kind = i.kind
    /\ call.op \in {"pointer_destroy_ffi", "touch_destroy_ffi"} =>
          \A a \in Addrs : pheap[a].kind = "server" => heap[a] = pheap[a]
    /\ (\E i \in pissued : i.ptr = call.ptr /\ i.kind \in {"pointer", "touch"}) =>
          DispatchesToOwn

\* a touch call is served, and reaches its object, while no instance Handle
\* is allocated any more
C8_Witness ==
    /\ call.op = "touch_down_ffi"
    /\ Has("dispatch") /\ ~UserFault
    /\ \A a \in Addrs : heap[a].kind # "server"

(* C9: identity recovery is the inverse of construction: for every Handle
   constructed around a value v, container_of of its header pointer is that
   Handle, and a call made with the pointer calls the methods of v at that
   Handle and changes no other allocated Handle, however many are live. *)
C9_RecoverInvertsConstruct ==
    /\ \A i \in issued : ContainerOf(i.ptr) = i.at /\ heap[i.at].val = i.val
    /\ (call.ptr # NULL /\ call.op # "host_write") =>
          /\ DispatchesToOwn
          /\ \E i \in pissued :
                /\ i.ptr = call.ptr
                /\ \A b \in Addrs \ {i.at} : pheap[b] # NoHandle => heap[b] = pheap[b]

\* two pointer Handles around different objects are live and a call on one of
\* them reached its object
C9_Witness ==
    \E i, j \in issued :
        /\ i.kind = "pointer" /\ j.kind = "pointer"
        /\ i.val # j.val
        /\ call.ptr = i.ptr
        /\ call.op = "pointer_move_relative_ffi"
        /\ \E n \in Events("dispatch") : trace[n].at = i.at /\ trace[n].val = i.val

(* C10: a descriptor open-client-channel returns is the one the
   implementation produced, it is open and handed to the host (nothing in the
   adapter owns it), it was not handed out before, and no call on any Handle,
   destroy-instance included, closes it or changes who owns it; when the
   implementation faults the call returns -1 and no descriptor changes. *)
C10_EndpointHandedOver ==
    /\ \A f \in Fds : fdTable[f] # "owned"
    /\ \A f \in Fds : pfds[f] = "host" => fdTable[f] = "host"
    /\ IF call.op = "create_client_socket_ffi" /\ ret.v >= 0
       THEN /\ ret.v \in Fds
            /\ \E n \in Events("yield_fd") : trace[n].val = ret.v
            /\ pfds[ret.v] = "closed"
            /\ fdTable[ret.v] = "host"
            /\ \A g \in Fds \ {ret.v} : fdTable[g] = pfds[g]
       ELSE fdTable = pfds
    /\ (call.op = "create_client_socket_ffi" /\ UserFault) => ret.v = -1

\* a second descriptor is returned while the first is still open in the
\* host's hands
C10_Witness ==
    /\ call.op = "create_client_socket_ffi"
    /\ ret.v >= 0
    /\ \E g \in Fds \ {ret.v} : pfds[g] = "host" /\ fdTable[g] = "host"

(* C11: create-instance sets the process-wide disposition of the
   broken-transport signal to "ignore" before it calls the factory W::new,
   and allocates the Handle only after the factory returned; the disposition
   is process state: it is set in every state in which the factory has run or
   an instance Handle is allocated, a further create-instance leaves it set,
   and no call, the destroy calls included, clears it. *)
C11_Now ==
    /\ (\E a \in Addrs : heap[a].kind = "server") => sigpipe
    /\ call.op = "create_server_ffi" =>
          /\ Len(trace) >= 1
          /\ trace[1].ev \in {"sigaction_ok", "sigaction_fail"}
          /\ Cardinality(Events("sigaction_ok") \cup Events("sigaction_fail")) = 1
          /\ \A n \in Events("dispatch") :
                /\ sigpipe
                /\ trace[n].m = "new"
                /\ \E k \in Events("sigaction_ok") : k < n
          /\ \A n \in Events("alloc") : \E k \in Events("dispatch") : k < n
          /\ Has("sigaction_ok") => sigpipe

C11_Step == (sigpipe => sigpipe') /\ C11_Now'

C11_SignalIgnoredBeforeFactory == [][C11_Step]_vars

\* a second create-instance has succeeded after the first instance was
\* destroyed, and the signal is still ignored
C11_Witness ==
    /\ call.op = "create_server_ffi"
    /\ ret.v # NULL
    /\ sigpipe
    /\ \A a \in Addrs : pheap[a].kind # "server"
    /\ \E f \in Fds : fdTable[f] = "host"

(* C12: an instance Handle goes uninitialized -> constructed -> any sequence
   of started / stopped -> destroyed: create-instance allocates it around a
   new object, every start and stop call between creation and destruction is
   dispatched to its object whatever state the object is in, and leaves it
   started / stopped when the method returns, destroy-instance releases it,
   and a method is only ever dispatched to the object of a Handle that is
   allocated and held by the host, never to a destroyed one. *)
C12_InstanceLifecycle ==
    /\ (call.op = "create_server_ffi" /\ ret.v # NULL) =>
          \E i \in issued \ pissued :
              /\ i.ptr = ret.v
              /\ pheap[i.at] = NoHandle
              /\ heap[i.at].kind = "server"
              /\ heap[i.at].st = "new"
    /\ call.op \in {"start_server_ffi", "stop_server_ffi"} =>
          \E i \in pissued :
              LET m == IF call.op = "start_server_ffi" THEN "start" ELSE "stop"
              IN /\ i.ptr = call.ptr
                 /\ i \in issued
                 /\ pheap[i.at].kind = "server"
                 /\ pheap[i.at].st \in {"new", "started", "stopped"}
                 /\ heap[i.at].kind = "server"
                 /\ Cardinality(Events("dispatch")) = 1
                 /\ \A n \in Events("dispatch") :
                       trace[n].m = m /\ trace[n].at = i.at /\ trace[n].val = i.val
                 /\ ~UserFault => heap[i.at].st = (IF m = "start" THEN "started" ELSE "stopped")
    /\ call.op = "destroy_server_ffi" =>
          \E i \in pissued \ issued :
              /\ i.ptr = call.ptr
              /\ pheap[i.at].kind = "server"
              /\ heap[i.at] = NoHandle
    /\ \A n \in Events("dispatch") :
          trace[n].at # NULL =>
              /\ pheap[trace[n].at] # NoHandle
              /\ \E i \in pissued : i.at = trace[n].at /\ i.val = trace[n].val
    /\ \A a \in Addrs :
          heap[a].kind = "server" => heap[a].st \in {"new", "started", "stopped"}

\* an instance that had been stopped is started again
C12_Witness ==
    /\ call.op = "start_server_ffi"
    /\ ~UserFault
    /\ \E i \in issued :
          /\ i.ptr = call.ptr
          /\ pheap[i.at].st = "stopped"
          /\ heap[i.at].st = "started"

\* the last call was get-descriptor on the Handle i, and it changed no Handle,
\* no object, no descriptor and not what the host holds
ReadOnlyOn(i) ==
    /\ i.ptr = call.ptr
    /\ i.kind = "server"
    /\ heap = pheap
    /\ issued = pissued
    /\ fdTable = pfds
    /\ Events("dispatch") # {}
    /\ \A n \in Events("dispatch") : trace[n].m = "get_descriptor" /\ trace[n].at = i.at

(* C13 as stated: every get-descriptor call on a live instance Handle returns
   the pointer to the descriptor of that Handle's object, the same whatever
   was called before, and changes neither the allocated Handles nor any
   object. *)
C13_DescriptorEveryCall ==
    call.op = "get_descriptor_ffi" =>
        \E i \in pissued :
            /\ ReadOnlyOn(i)
            /\ ret = [kind |-> "ptr", v |-> DescriptorPtr(i.val)]
            /\ ret.v # NULL

(* C13 as amended: a get-descriptor call on a live instance Handle changes
   neither the allocated Handles nor any object; when the implementation's
   get_descriptor returns, the call returns the pointer it yielded, which
   depends on the Handle's object only and so is the same on every such
   call, whatever was called in between; when it faults, the call returns
   null. *)
C13_DescriptorUnlessFault ==
    call.op = "get_descriptor_ffi" =>
        \E i \in pissued :
            /\ ReadOnlyOn(i)
            /\ ret.kind = "ptr"
            /\ ~UserFault => (ret.v = DescriptorPtr(i.val) /\ ret.v # NULL)
            /\ UserFault => ret.v = NULL

\* get-descriptor returns the descriptor of a started instance that also has a
\* pointer Handle
C13_Witness ==
    /\ call.op = "get_descriptor_ffi"
    /\ ~UserFault
    /\ ret.v # NULL
    /\ \E i \in issued : i.ptr = call.ptr /\ heap[i.at].st = "started"
                         /\ ret.v = DescriptorPtr(i.val)
    /\ \E j \in issued : j.kind = "pointer"

(* C14: pointer-destroy and touch-destroy take the Handle back first, then
   call the implementation's destroy hook exactly once, on the object of that
   Handle while it is still allocated, and only after the hook drop the
   object and release the storage; the hook is called by no other trampoline
   and, the Handle being gone afterwards, not again for that Handle. *)
C14_HookOnceBeforeRelease ==
    /\ call.op \in {"pointer_destroy_ffi", "touch_destroy_ffi"} =>
          \E i \in pissued \ issued :
              /\ i.ptr = call.ptr
              /\ i.kind = (IF call.op = "pointer_destroy_ffi" THEN "pointer" ELSE "touch")
              /\ pheap[i.at].kind = i.kind
              /\ heap[i.at] = NoHandle
              /\ Len(trace) >= 1 /\ trace[1] = EvReclaim(i.at)
              /\ Cardinality(Events("reclaim")) = 1
              /\ Cardinality(Events("dispatch")) = 1
              /\ Cardinality(Events("drop")) = 1
              /\ Cardinality(Events("free")) = 1
              /\ \A d \in Events("dispatch") :
                    /\ trace[d] = EvDispatch(i.at, i.val, "destroy", -1, -1)
                    /\ \A r \in Events("reclaim") : r < d
                    /\ \A p \in Events("drop") \cup Events("free") : d < p
    /\ \A n \in Events("dispatch") :
          trace[n].m = "destroy" => call.op \in {"pointer_destroy_ffi", "touch_destroy_ffi"}

\* the destroy hook of a touch object has run and returned, and the Handle was
\* released after it
C14_Witness ==
    /\ call.op = "touch_destroy_ffi"
    /\ ~UserFault
    /\ \E d \in Events("dispatch"), f \in Events("free") :
          /\ d < f
          /\ trace[d].m = "destroy"
          /\ pheap[trace[d].at].kind = "touch"
          /\ heap[trace[d].at] = NoHandle

\* the capability method behind each slot of the three tables
SlotMethod(op) ==
    CASE op = "start_server_ffi" -> "start"
      [] op = "stop_server_ffi" -> "stop"
      [] op = "create_client_socket_ffi" -> "create_client_socket"
      [] op = "position_window_absolute_ffi" -> "position_window_absolute"
      [] op = "create_pointer_ffi" -> "create_pointer"
      [] op = "create_touch_ffi" -> "create_touch"
      [] op = "get_descriptor_ffi" -> "get_descriptor"
      [] op = "start_on_this_thread_ffi" -> "start_on_this_thread"
      [] op = "pointer_move_absolute_ffi" -> "move_absolute"
      [] op = "pointer_move_relative_ffi" -> "move_relative"
      [] op = "pointer_button_up_ffi" -> "button_up"
      [] op = "pointer_button_down_ffi" -> "button_down"
      [] op = "touch_down_ffi" -> "touch_down"
      [] op = "touch_move_ffi" -> "touch_move"
      [] op = "touch_up_ffi" -> "touch_up"
      [] op \in {"pointer_destroy_ffi", "touch_destroy_ffi"} -> "destroy"
      [] OTHER -> "none"

(* C15: a trampoline call on a live Handle calls the capability method of its
   slot exactly once, on that Handle's object and with the arguments the
   call received, and calls no other capability method; a method that faults
   is not called again in the same call, and there is one fault at most.
   (destroy-instance, which is in no slot of the three tables and has no
   capability method, calls none; create-instance calls the factory once at
   most.) *)
C15_OnceNoRetry ==
    /\ Cardinality(Events("panic")) <= 1
    /\ \A n \in Events("panic") : \A d \in Events("dispatch") : d < n
    /\ (call.ptr # NULL /\ call.op # "host_write") =>
          \E i \in pissued :
              /\ i.ptr = call.ptr
              /\ pheap[i.at].kind = i.kind
              /\ IF call.op = "destroy_server_ffi"
                 THEN Events("dispatch") = {}
                 ELSE /\ Cardinality(Events("dispatch")) = 1
                      /\ \A n \in Events("dispatch") :
                            trace[n] = EvDispatch(i.at, i.val, SlotMethod(call.op), call.x, call.y)
    /\ call.op = "create_server_ffi" =>
          /\ Cardinality(Events("dispatch")) <= 1
          /\ \A n \in Events("dispatch") : trace[n].m = "new"

\* button-up was called with button code MaxArg, its method faulted, and it
\* was called that once
C15_Witness ==
    /\ call.op = "pointer_button_up_ffi"
    /\ call.x = MaxArg
    /\ UserFault
    /\ Cardinality(Events("dispatch")) = 1
    /\ \E n \in Events("dispatch") : trace[n].m = "button_up" /\ trace[n].x = MaxArg

(* C16: once pointer-destroy or touch-destroy has taken the Handle back, the
   Handle is released whether or not the destroy hook faults: the call
   returns normally, the object is dropped and the storage released exactly
   once (after the fault, when there is one), the Handle is allocated no
   more and the host holds it no more; nothing is ever released that was not
   allocated. *)
C16_DestroyedEvenOnFault ==
    /\ call.op \in {"pointer_destroy_ffi", "touch_destroy_ffi"} =>
          /\ proc = "running"
          /\ ret = [kind |-> "void", v |-> 0]
          /\ \E i \in pissued \ issued :
                /\ i.ptr = call.ptr
                /\ pheap[i.at].kind = i.kind
                /\ heap[i.at] = NoHandle
                /\ \A j \in issued : j.at # i.at /\ j.ptr # i.ptr
                /\ Cardinality(Events("drop")) = 1
                /\ Cardinality(Events("free")) = 1
                /\ \A n \in Events("drop") : trace[n] = EvDrop(i.at, i.val, pheap[i.at].st)
                /\ \A n \in Events("free") : trace[n] = EvFree(i.at)
                /\ \A p \in Events("panic") :
                      \A n \in Events("drop") \cup Events("free") : p < n
    /\ \A n \in Events("free") : pheap[trace[n].at] # NoHandle /\ heap[trace[n].at] = NoHandle

\* the destroy hook of a pointer object faulted; the call returned and the
\* Handle is released
C16_Witness ==
    /\ call.op = "pointer_destroy_ffi"
    /\ UserFault
    /\ ret = [kind |-> "void", v |-> 0]
    /\ Has("print")
    /\ \E n \in Events("free") : heap[trace[n].at] = NoHandle /\ pheap[trace[n].at].kind = "pointer"
    /\ \A i \in issued : i.ptr # call.ptr

\* why the last creation call failed, if it did
CreationFailed ==
    /\ call.op \in CreateOps
    /\ Has("sigaction_fail") \/ UserFault \/ Has("yield_none")

(* C17: a creation call that fails allocates nothing: when create-instance
   fails because sigaction fails or the factory faults, or create-pointer /
   create-touch fails because its factory faults or yields none, the call
   returns null, exactly the Handles that were allocated before are allocated
   after, around the same objects, the host holds what it held, and the
   instance Handle a capability creator was called on is still allocated and
   held; when sigaction fails the factory is not called; a creation call
   returns null in these cases only. *)
C17_FailedCreationAllocatesNothing ==
    /\ CreationFailed =>
          /\ ret = [kind |-> "ptr", v |-> NULL]
          /\ proc = "running"
          /\ Events("alloc") = {}
          /\ issued = pissued
          /\ \A a \in Addrs :
                /\ heap[a].kind = pheap[a].kind
                /\ heap[a].val = pheap[a].val
                /\ heap[a].version = pheap[a].version
          /\ call.ptr # NULL =>
                \E i \in issued :
                    /\ i.ptr = call.ptr
                    /\ i.kind = "server"
                    /\ heap[i.at].kind = "server"
                    /\ heap[i.at] = pheap[i.at]
    /\ Has("sigaction_fail") => Events("dispatch") = {}
    /\ (call.op \in CreateOps /\ ret.v = NULL) => CreationFailed

\* create-touch failed because the factory yielded none, on an instance that
\* already has a touch Handle and can still be started
C17_Witness ==
    /\ call.op = "create_touch_ffi"
    /\ Has("yield_none")
    /\ ret.v = NULL
    /\ \E j \in issued : j.kind = "touch"
    /\ \E i \in issued : i.ptr = call.ptr
    /\ ENABLED start_server_ffi

(* C18: the header of a Handle is written at construction only: in every
   state the library's own operations reach, an allocated instance Handle
   has version tag 3 and its 8 slots populated, an allocated pointer or touch
   Handle version tag 1 and all its slots populated, no call changes the
   header of a Handle it leaves allocated, and so no version assertion
   fails. *)
C18_HeaderAsConstructed ==
    /\ \A a \in Addrs :
          /\ heap[a].kind = "server" =>
                /\ heap[a].version = 3
                /\ heap[a].slots = ServerSlots
                /\ Cardinality(heap[a].slots) = 8
          /\ heap[a].kind = "pointer" =>
                /\ heap[a].version = 1
                /\ heap[a].slots = PointerSlots
                /\ Cardinality(heap[a].slots) = 5
          /\ heap[a].kind = "touch" =>
                /\ heap[a].version = 1
                /\ heap[a].slots = TouchSlots
                /\ Cardinality(heap[a].slots) = 4
          /\ (pheap[a] # NoHandle /\ heap[a] # NoHandle) =>
                /\ heap[a].version = pheap[a].version
                /\ heap[a].slots = pheap[a].slots
                /\ heap[a].kind = pheap[a].kind
    /\ ~Has("assert_fail")

\* Handles of the three kinds are allocated and a version assertion has just
\* been evaluated, and passed, on a started instance
C18_Witness ==
    /\ \A k \in {"server", "pointer", "touch"} : \E a \in Addrs : heap[a].kind = k
    /\ Has("assert_ok")
    /\ call.op = "position_window_absolute_ffi"
    /\ \E i \in issued : i.ptr = call.ptr /\ heap[i.at].st = "started"

(* C19: destroy-instance calls no capability method of the instance object,
   stop included, whatever state the instance is in: it takes the Handle
   back, drops the object in the state it was in (a started instance is
   dropped started) and releases the storage. *)
C19_DestroyCallsNoMethod ==
    call.op = "destroy_server_ffi" =>
        \E i \in pissued \ issued :
            /\ i.ptr = call.ptr
            /\ i.kind = "server"
            /\ Events("dispatch") = {}
            /\ Cardinality(Events("drop")) = 1
            /\ \A n \in Events("drop") : trace[n] = EvDrop(i.at, i.val, pheap[i.at].st)
            /\ heap[i.at] = NoHandle
            /\ ret = [kind |-> "void", v |-> 0]

\* an instance that was started and not stopped has been destroyed
C19_Witness ==
    /\ call.op = "destroy_server_ffi"
    /\ \E i \in pissued : i.ptr = call.ptr /\ pheap[i.at].st = "started"
    /\ \E n \in Events("drop") : trace[n].m = "started"
    /\ Events("dispatch") = {}

(* C20 as stated: a call in which a fault is contained prints exactly one
   diagnostic record, after the fault, and the record names the trampoline
   that contained it (bare, or qualified by its table as the instance-table
   trampolines print it); a call that completes without a fault prints
   none. *)
C20_OneRecordNamingTrampoline ==
    call.op \notin {"none", "host_write"} =>
        IF Has("panic") \/ Has("assert_fail")
        THEN /\ Cardinality(Events("print")) = 1
             /\ \A n \in Events("print") :
                   /\ n = Len(trace)
                   /\ trace[n].m \in {call.op, "wlcs_display_server::" \o call.op}
        ELSE Events("print") = {}

====
